---------------------------- MODULE Spec2Model ----------------------------
(***************************************************************************)
(* A model of the Oscars winners-and-nominees parser:                      *)
(*   src/oscar_categories_historical.py  the category taxonomy and aliases *)
(*   src/enhanced_parsing.py             the classifier, the entry         *)
(*                                       consumer, the film extractor and  *)
(*                                       the winners/nominees driver       *)
(*                                                                         *)
(* Python strings are TLA+ strings, taken apart with Len, SubSeq, Head,    *)
(* Tail and \o.  TLA+ strings are ASCII, so the two non-ASCII characters   *)
(* of the source are written with the stand-ins EM (U+2014, em dash) and   *)
(* EN (U+2013, en dash); no input line of the model holds either stand-in  *)
(* for any other purpose.  Python's None is the empty tuple and a present  *)
(* value v is <<v>>.                                                       *)
(***************************************************************************)
EXTENDS Integers, Sequences, FiniteSets, TLC

VARIABLES
    year,                  \* the ceremony year of the scan
    lines,                 \* the line sequence given to the driver
    source_url,            \* the URL given to the driver
    i,                     \* the scan index of the driver (0-based, as in the source)
    current_category_raw,  \* <<>> (None) or <<heading>>
    rows,                  \* the rows appended so far, in order
    result,                \* the list the driver returns (set once pc = "done")
    log,                   \* history: one entry per marker the driver handled
    pc,                    \* "scan", "dedup", "done"; "idle" outside a driver run
    call                   \* one call of a pure function: its inputs and its result

vars == <<year, lines, source_url, i, current_category_raw, rows, result, log, pc, call>>

driverVars == <<year, lines, source_url, i, current_category_raw, rows, result, log, pc>>

-----------------------------------------------------------------------------
(* Characters and the string primitives of Python the source relies on.    *)

EM == "~"

EN == "^"

UpperLetters == "ABCDEFGHIJKLMNOPQRSTUVWXYZ"

LowerLetters == "abcdefghijklmnopqrstuvwxyz"

Ch(s, k) == SubSeq(s, k, k)

UpperSet == {Ch(UpperLetters, k) : k \in 1..Len(UpperLetters)}

LowerSet == {Ch(LowerLetters, k) : k \in 1..Len(LowerLetters)}

LowerOf == [c \in UpperSet |-> Ch(LowerLetters, CHOOSE k \in 1..Len(UpperLetters) : Ch(UpperLetters, k) = c)]

WhiteSpace == {" ", "\t", "\n"}

\* str.isupper() of a one-character string
isupper(c) == c \in UpperSet

\* the least element of a non-empty finite set of integers
least(S) == CHOOSE x \in S : \A y \in S : x <= y

\* the first position of s whose character is in chars (not in chars, for others),
\* or 0 when there is none
first_in(s, chars) ==
    LET hits == {k \in 1..Len(s) : Ch(s, k) \in chars}
    IN  IF hits = {} THEN 0 ELSE least(hits)

first_not_in(s, chars) ==
    LET hits == {k \in 1..Len(s) : Ch(s, k) \notin chars}
    IN  IF hits = {} THEN 0 ELSE least(hits)

last_not_in(s, chars) ==
    LET hits == {k \in 1..Len(s) : Ch(s, k) \notin chars}
    IN  IF hits = {} THEN 0 ELSE CHOOSE x \in hits : \A y \in hits : x >= y

\* str.lower(): the string is taken apart at its first upper-case letter
RECURSIVE lower(_)
lower(s) ==
    LET k == first_in(s, UpperSet)
    IN  IF k = 0 THEN s
        ELSE SubSeq(s, 1, k - 1) \o LowerOf[Ch(s, k)] \o lower(SubSeq(s, k + 1, Len(s)))

\* str.lstrip(chars), str.rstrip(chars), str.strip(chars), chars a set of characters
lstrip(s, chars) ==
    LET k == first_not_in(s, chars)
    IN  IF k = 0 THEN "" ELSE SubSeq(s, k, Len(s))

rstrip(s, chars) == SubSeq(s, 1, last_not_in(s, chars))

strip(s, chars) == rstrip(lstrip(s, chars), chars)

\* str.strip() with no argument
strip_ws(s) == strip(s, WhiteSpace)

\* re.sub(r"\s+", " ", s): every maximal run of whitespace becomes one space, that
\* is, a whitespace character becomes a space when it starts a run and nothing
\* otherwise.  collapse_range does this for the positions lo..hi of s.
RECURSIVE collapse_range(_, _, _)
collapse_range(s, lo, hi) ==
    IF lo > hi THEN ""
    ELSE IF lo = hi
         THEN IF Ch(s, lo) \notin WhiteSpace THEN Ch(s, lo)
              ELSE IF lo = 1 \/ Ch(s, lo - 1) \notin WhiteSpace THEN " "
              ELSE ""
    ELSE LET mid == (lo + hi) \div 2
         IN  collapse_range(s, lo, mid) \o collapse_range(s, mid + 1, hi)

collapse_ws(s) == collapse_range(s, 1, Len(s))

\* str.startswith(p)
startswith(s, p) == Len(s) >= Len(p) /\ SubSeq(s, 1, Len(p)) = p

\* the positions at which p occurs in s, for a non-empty p
occurrences(s, p) == {k \in 1..(Len(s) - Len(p) + 1) : SubSeq(s, k, k + Len(p) - 1) = p}

\* p in s, for a non-empty p
contains(s, p) == \E k \in 1..(Len(s) - Len(p) + 1) : SubSeq(s, k, k + Len(p) - 1) = p

\* str.split() with no argument: the maximal runs of non-whitespace
RECURSIVE split_ws(_)
split_ws(s) ==
    LET t == lstrip(s, WhiteSpace)
    IN  IF t = "" THEN <<>>
        ELSE LET e == first_in(t, WhiteSpace)
             IN  IF e = 0 THEN <<t>>
                 ELSE <<SubSeq(t, 1, e - 1)>> \o split_ws(SubSeq(t, e, Len(t)))

\* str.replace(old, new): leftmost non-overlapping occurrences, old non-empty
RECURSIVE replace(_, _, _)
replace(s, old, new) ==
    LET at == occurrences(s, old)
    IN  IF at = {} THEN s
        ELSE LET k == least(at)
             IN  SubSeq(s, 1, k - 1) \o new
                     \o replace(SubSeq(s, k + Len(old), Len(s)), old, new)

\* sep.join(parts)
RECURSIVE join(_, _)
join(sep, parts) ==
    IF parts = <<>> THEN ""
    ELSE IF Len(parts) = 1 THEN parts[1]
    ELSE parts[1] \o sep \o join(sep, Tail(parts))

\* the elements of a tuple
Range(f) == {f[k] : k \in DOMAIN f}

-----------------------------------------------------------------------------
(* src/oscar_categories_historical.py                                      *)

CATEGORY_HISTORY ==
    "1929" :> <<
        "Outstanding Picture", "Best Actor", "Best Actress", "Best Director",
        "Best Writing", "Best Cinematography", "Best Art Direction",
        "Best Engineering Effects"
    >>
    @@ "1930" :> <<
        "Outstanding Picture", "Best Actor", "Best Actress", "Best Director",
        "Best Writing", "Best Cinematography", "Best Art Direction",
        "Best Sound Recording"
    >>
    @@ "1934" :> <<
        "Outstanding Production", "Best Actor", "Best Actress", "Best Director",
        "Best Writing (Adaptation)", "Best Writing (Original Story)",
        "Best Cinematography", "Best Art Direction", "Best Sound Recording",
        "Best Assistant Director", "Best Film Editing", "Best Music (Scoring)",
        "Best Music (Song)"
    >>
    @@ "1940" :> <<
        "Outstanding Production", "Best Actor", "Best Actress",
        "Best Supporting Actor", "Best Supporting Actress", "Best Director",
        "Best Writing (Original Screenplay)", "Best Writing (Screenplay)",
        "Best Cinematography (Black and White)", "Best Cinematography (Color)",
        "Best Art Direction (Black and White)", "Best Art Direction (Color)",
        "Best Sound Recording", "Best Film Editing", "Best Music (Original Score)",
        "Best Music (Original Song)", "Best Special Effects",
        "Best Documentary (Short Subject)", "Best Documentary (Feature)"
    >>
    @@ "1950" :> <<
        "Best Picture", "Best Actor", "Best Actress", "Best Supporting Actor",
        "Best Supporting Actress", "Best Director",
        "Best Writing (Story and Screenplay)", "Best Writing (Screenplay)",
        "Best Cinematography (Black and White)", "Best Cinematography (Color)",
        "Best Art Direction (Black and White)", "Best Art Direction (Color)",
        "Best Costume Design (Black and White)", "Best Costume Design (Color)",
        "Best Sound Recording", "Best Film Editing",
        "Best Music (Scoring of a Dramatic or Comedy Picture)",
        "Best Music (Scoring of a Musical Picture)", "Best Music (Original Song)",
        "Best Special Effects", "Best Documentary (Short Subject)",
        "Best Documentary (Feature)", "Best Foreign Language Film"
    >>
    @@ "1970" :> <<
        "Best Picture", "Best Actor in a Leading Role",
        "Best Actress in a Leading Role", "Best Actor in a Supporting Role",
        "Best Actress in a Supporting Role", "Best Director",
        "Best Writing (Original Screenplay)",
        "Best Writing (Screenplay Based on Material from Another Medium)",
        "Best Cinematography", "Best Art Direction", "Best Costume Design",
        "Best Sound", "Best Film Editing", "Best Music (Original Dramatic Score)",
        "Best Music (Original Song Score)", "Best Music (Original Song)",
        "Best Visual Effects", "Best Documentary (Short Subject)",
        "Best Documentary (Feature)", "Best Foreign Language Film",
        "Best Short Film (Live Action)", "Best Short Film (Animated)"
    >>
    @@ "1990" :> <<
        "Best Picture", "Best Actor in a Leading Role",
        "Best Actress in a Leading Role", "Best Actor in a Supporting Role",
        "Best Actress in a Supporting Role", "Best Director",
        "Best Writing (Original Screenplay)",
        "Best Writing (Screenplay Based on Material Previously Produced or Published)",
        "Best Cinematography", "Best Art Direction", "Best Costume Design",
        "Best Sound", "Best Sound Effects Editing", "Best Film Editing",
        "Best Music (Original Score)", "Best Music (Original Song)", "Best Makeup",
        "Best Visual Effects", "Best Documentary (Short Subject)",
        "Best Documentary (Feature)", "Best Foreign Language Film",
        "Best Short Film (Live Action)", "Best Short Film (Animated)"
    >>
    @@ "2000" :> <<
        "Best Picture", "Best Actor in a Leading Role",
        "Best Actress in a Leading Role", "Best Actor in a Supporting Role",
        "Best Actress in a Supporting Role", "Best Director",
        "Best Writing (Original Screenplay)", "Best Writing (Adapted Screenplay)",
        "Best Cinematography", "Best Art Direction", "Best Costume Design",
        "Best Sound Mixing", "Best Sound Editing", "Best Film Editing",
        "Best Music (Original Score)", "Best Music (Original Song)", "Best Makeup",
        "Best Visual Effects", "Best Documentary (Short Subject)",
        "Best Documentary (Feature)", "Best Foreign Language Film",
        "Best Short Film (Live Action)", "Best Short Film (Animated)",
        "Best Animated Feature Film"
    >>
    @@ "2010" :> <<
        "Best Picture", "Best Actor in a Leading Role",
        "Best Actress in a Leading Role", "Best Actor in a Supporting Role",
        "Best Actress in a Supporting Role", "Best Director",
        "Best Writing (Original Screenplay)", "Best Writing (Adapted Screenplay)",
        "Best Cinematography", "Best Production Design", "Best Costume Design",
        "Best Sound Mixing", "Best Sound Editing", "Best Film Editing",
        "Best Music (Original Score)", "Best Music (Original Song)",
        "Best Makeup and Hairstyling", "Best Visual Effects",
        "Best Documentary (Short Subject)", "Best Documentary (Feature)",
        "Best International Feature Film", "Best Short Film (Live Action)",
        "Best Short Film (Animated)", "Best Animated Feature Film"
    >>
    @@ "2020" :> <<
        "Best Picture", "Best Actor in a Leading Role",
        "Best Actress in a Leading Role", "Best Actor in a Supporting Role",
        "Best Actress in a Supporting Role", "Best Director",
        "Best Writing (Original Screenplay)", "Best Writing (Adapted Screenplay)",
        "Best Cinematography", "Best Production Design", "Best Costume Design",
        "Best Sound", "Best Film Editing", "Best Music (Original Score)",
        "Best Music (Original Song)", "Best Makeup and Hairstyling",
        "Best Visual Effects", "Best Documentary (Short Subject)",
        "Best Documentary (Feature)", "Best International Feature Film",
        "Best Short Film (Live Action)", "Best Short Film (Animated)",
        "Best Animated Feature Film"
    >>

COMPREHENSIVE_CATEGORIES ==
    "Outstanding Picture" :> "Best Picture"
    @@ "Outstanding Production" :> "Best Picture"
    @@ "Best Picture" :> "Best Picture"
    @@ "Best Actor" :> "Best Actor in a Leading Role"
    @@ "Best Actor in a Leading Role" :> "Best Actor in a Leading Role"
    @@ "Best Actress" :> "Best Actress in a Leading Role"
    @@ "Best Actress in a Leading Role" :> "Best Actress in a Leading Role"
    @@ "Best Supporting Actor" :> "Best Actor in a Supporting Role"
    @@ "Best Actor in a Supporting Role" :> "Best Actor in a Supporting Role"
    @@ "Best Supporting Actress" :> "Best Actress in a Supporting Role"
    @@ "Best Actress in a Supporting Role" :> "Best Actress in a Supporting Role"
    @@ "Best Director" :> "Best Director"
    @@ "Directing" :> "Best Director"
    @@ "Best Writing" :> "Best Writing (Original Screenplay)"
    @@ "Best Writing (Original Story)" :> "Best Writing (Original Screenplay)"
    @@ "Best Writing (Adaptation)" :> "Best Writing (Adapted Screenplay)"
    @@ "Best Writing (Story and Screenplay)" :> "Best Writing (Original Screenplay)"
    @@ "Best Writing (Screenplay)" :> "Best Writing (Adapted Screenplay)"
    @@ "Best Writing (Screenplay Based on Material from Another Medium)" :> "Best Writing (Adapted Screenplay)"
    @@ "Best Writing (Screenplay Based on Material Previously Produced or Published)" :> "Best Writing (Adapted Screenplay)"
    @@ "Best Writing (Original Screenplay)" :> "Best Writing (Original Screenplay)"
    @@ "Best Writing (Adapted Screenplay)" :> "Best Writing (Adapted Screenplay)"
    @@ "Best Cinematography" :> "Best Cinematography"
    @@ "Best Cinematography (Black and White)" :> "Best Cinematography"
    @@ "Best Cinematography (Color)" :> "Best Cinematography"
    @@ "Best Art Direction" :> "Best Production Design"
    @@ "Best Art Direction (Black and White)" :> "Best Production Design"
    @@ "Best Art Direction (Color)" :> "Best Production Design"
    @@ "Best Production Design" :> "Best Production Design"
    @@ "Best Costume Design" :> "Best Costume Design"
    @@ "Best Costume Design (Black and White)" :> "Best Costume Design"
    @@ "Best Costume Design (Color)" :> "Best Costume Design"
    @@ "Best Sound Recording" :> "Best Sound"
    @@ "Best Sound" :> "Best Sound"
    @@ "Best Sound Mixing" :> "Best Sound"
    @@ "Best Sound Editing" :> "Best Sound"
    @@ "Best Film Editing" :> "Best Film Editing"
    @@ "Best Music (Scoring)" :> "Best Music (Original Score)"
    @@ "Best Music (Original Score)" :> "Best Music (Original Score)"
    @@ "Best Music (Scoring of a Dramatic or Comedy Picture)" :> "Best Music (Original Score)"
    @@ "Best Music (Original Dramatic Score)" :> "Best Music (Original Score)"
    @@ "Best Music (Original Song Score)" :> "Best Music (Original Score)"
    @@ "Best Music (Scoring of a Musical Picture)" :> "Best Music (Original Score)"
    @@ "Best Music (Original Song)" :> "Best Music (Original Song)"
    @@ "Best Music (Song)" :> "Best Music (Original Song)"
    @@ "Best Engineering Effects" :> "Best Visual Effects"
    @@ "Best Special Effects" :> "Best Visual Effects"
    @@ "Best Visual Effects" :> "Best Visual Effects"
    @@ "Best Makeup" :> "Best Makeup and Hairstyling"
    @@ "Best Makeup and Hairstyling" :> "Best Makeup and Hairstyling"
    @@ "Best Documentary (Short Subject)" :> "Best Documentary (Short Subject)"
    @@ "Best Documentary (Feature)" :> "Best Documentary (Feature)"
    @@ "Best Short Film (Live Action)" :> "Best Short Film (Live Action)"
    @@ "Best Short Film (Animated)" :> "Best Short Film (Animated)"
    @@ "Best Foreign Language Film" :> "Best International Feature Film"
    @@ "Best International Feature Film" :> "Best International Feature Film"
    @@ "Best Animated Feature Film" :> "Best Animated Feature Film"
    @@ "Best Assistant Director" :> "Best Assistant Director"

Digits == "0123456789"

\* int(s) of a decimal digit string
RECURSIVE int(_)
int(s) ==
    IF s = "" THEN 0
    ELSE 10 * int(SubSeq(s, 1, Len(s) - 1))
         + (CHOOSE d \in 0..9 : Ch(Digits, d + 1) = Ch(s, Len(s)))

\* str(n) of a natural number
RECURSIVE str(_)
str(n) ==
    IF n < 10 THEN Ch(Digits, n + 1) ELSE str(n \div 10) \o Ch(Digits, (n % 10) + 1)

\* sorted(S) of a finite set of integers
RECURSIVE sorted(_)
sorted(S) ==
    IF S = {} THEN <<>>
    ELSE LET m == CHOOSE x \in S : \A y \in S : x <= y
         IN  <<m>> \o sorted(S \ {m})

available_years == sorted({int(y) : y \in DOMAIN CATEGORY_HISTORY})

\* the loop of get_categories_for_year: the last y <= yr before the first y > yr
RECURSIVE closest_year_scan(_, _, _)
closest_year_scan(ys, yr, closest_year) ==
    IF ys = <<>> THEN closest_year
    ELSE IF Head(ys) <= yr THEN closest_year_scan(Tail(ys), yr, <<Head(ys)>>)
    ELSE closest_year

\* mutant: the scan compares with < where the source has <=
RECURSIVE closest_year_scan_strict(_, _, _)
closest_year_scan_strict(ys, yr, closest_year) ==
    IF ys = <<>> THEN closest_year
    ELSE IF Head(ys) < yr THEN closest_year_scan_strict(Tail(ys), yr, <<Head(ys)>>)
    ELSE closest_year

get_categories_for_year_strict(yr) ==
    LET closest_year == closest_year_scan_strict(available_years, yr, <<>>)
    IN  CATEGORY_HISTORY[str(IF closest_year = <<>> THEN 1929 ELSE closest_year[1])]

get_categories_for_year(yr) ==
    LET closest_year == closest_year_scan(available_years, yr, <<>>)
    IN  CATEGORY_HISTORY[str(IF closest_year = <<>> THEN 1929 ELSE closest_year[1])]

\* mutant: the alias is returned with its "Best " prefix removed
normalize_category_unprefixed(category_name, yr) ==
    IF category_name \in DOMAIN COMPREHENSIVE_CATEGORIES
    THEN replace(COMPREHENSIVE_CATEGORIES[category_name], "Best ", "")
    ELSE category_name

\* mutant: dict.get(category_name, "Unknown Category"), an unknown name is not passed through
normalize_category_no_passthrough(category_name, yr) ==
    IF category_name \in DOMAIN COMPREHENSIVE_CATEGORIES
    THEN COMPREHENSIVE_CATEGORIES[category_name]
    ELSE "Unknown Category"

\* mutant: the alias table is not consulted
normalize_category_identity(category_name, yr) == category_name

\* dict.get(category_name, category_name)
normalize_category(category_name, yr) ==
    IF category_name \in DOMAIN COMPREHENSIVE_CATEGORIES
    THEN COMPREHENSIVE_CATEGORIES[category_name]
    ELSE category_name

get_all_known_categories == DOMAIN COMPREHENSIVE_CATEGORIES

get_modern_categories == Range(COMPREHENSIVE_CATEGORIES)

-----------------------------------------------------------------------------
(* src/enhanced_parsing.py: normalisation and the two heuristics           *)

norm(s) == collapse_ws(strip_ws(s))

lower_norm(s) == lower(norm(s))

ENHANCED_CATEGORY_KEYWORDS == {
    "picture", "role", "directing", "writing", "music", "cinematography", "editing",
    "design", "effects", "sound", "makeup", "costume", "animated", "documentary",
    "short", "international", "foreign", "feature", "film", "score", "song",
    "screenplay", "adapted", "original", "supporting", "leading", "actress", "actor",
    "production", "art", "direction", "story", "title", "comedy", "dramatic",
    "assistant"
}

COMMON_ACTOR_NAMES == {
    "mary pickford", "warner baxter", "george arliss", "norma shearer",
    "fredric march", "helen hayes", "wallace beery", "charles laughton",
    "katharine hepburn", "leslie howard", "paul muni", "marie dressler",
    "lionel barrymore", "adolphe menjou", "ann harding", "irene dunne",
    "jackie cooper", "marlene dietrich", "richard dix", "norma shearer",
    "george bancroft", "bessie love", "betty compson", "chester morris",
    "corinne griffith", "jeanne eagels", "lewis stone", "ruth chatterton"
}

COMMON_FILM_TITLES == {
    "sunrise", "wings", "the jazz singer", "the circus", "7th heaven", "the crowd",
    "the racket", "chang", "the broadway melody", "the bridge of san luis rey",
    "the patriot", "white shadows in the south seas", "all quiet on the western front",
    "cimarron", "grand hotel"
}

is_early_years_format(yr) == 1929 <= yr /\ yr <= 1934

\* the bare category nouns neither heuristic accepts
category_nouns ==
    {"actor", "actress", "director", "cinematography", "direction", "writing",
     "effects", "engineering", "art direction"}

is_likely_actor_name(text) ==
    LET text_lower == lower_norm(text)
        words == split_ws(text)
    IN  IF text_lower \in COMMON_ACTOR_NAMES THEN TRUE
        ELSE IF startswith(text_lower, "best ") \/ startswith(text_lower, "outstanding ")
             THEN FALSE
        ELSE IF text_lower \in category_nouns THEN FALSE
        ELSE IF Len(words) = 2 /\ \A k \in 1..2 : isupper(Head(words[k])) THEN TRUE
        ELSE IF Len(words) = 1 /\ isupper(Head(text)) THEN TRUE
        ELSE FALSE

is_likely_film_title(text) ==
    LET text_lower == lower_norm(text)
        words == split_ws(text)
    IN  IF startswith(text_lower, "best ") \/ startswith(text_lower, "outstanding ")
        THEN FALSE
        ELSE IF text_lower \in category_nouns THEN FALSE
        ELSE IF text_lower \in COMMON_FILM_TITLES THEN TRUE
        ELSE IF Len(words) = 1 /\ isupper(Head(text)) THEN TRUE
        ELSE IF Len(words) >= 2 /\ isupper(Head(words[1])) THEN TRUE
        ELSE FALSE

-----------------------------------------------------------------------------
(* src/enhanced_parsing.py: the category classifier                        *)

exclude_fragments ==
    {"view by category", "view by film", "select a category", "highlights",
     "memorable moments", "share", "winner", "nominees", "nominee"}

category_indicators ==
    {"actor", "actress", "director", "directing", "writing", "cinematography",
     "art direction", "production design", "sound", "music", "editing", "effects",
     "engineering", "costume", "makeup", "documentary", "short", "animated",
     "foreign", "international", "picture", "production"}

\* cat.replace("Best ", "").replace("Outstanding ", "")
strip_prefixes(cat) == replace(replace(cat, "Best ", ""), "Outstanding ", "")

\* the taxonomy's labels: their simplified forms are tabulated (evaluated once)
taxonomy_labels == UNION {Range(CATEGORY_HISTORY[y]) : y \in DOMAIN CATEGORY_HISTORY}

simplified_labels == [cat \in taxonomy_labels |-> strip_prefixes(cat)] @@ <<>>

\* simplified = cat.replace("Best ", "").replace("Outstanding ", "") of a label cat
simplified(cat) ==
    IF cat \in DOMAIN simplified_labels THEN simplified_labels[cat] ELSE strip_prefixes(cat)

\* re.match(r"^(Best|Outstanding)\s+[A-Z]", s)
match_best_capital(s) ==
    \E p \in {"Best", "Outstanding"} :
        /\ startswith(s, p)
        /\ LET rest == SubSeq(s, Len(p) + 1, Len(s))
               after == lstrip(rest, WhiteSpace)
           IN  rest # after /\ after # "" /\ isupper(Head(after))

\* re.match(r"^[A-Z][a-zA-Z\s\(\),-]+$", s)
match_capital_shape(s) ==
    /\ Len(s) >= 2
    /\ isupper(Head(s))
    /\ \A k \in 2..Len(s) :
           Ch(s, k) \in UpperSet \cup LowerSet \cup WhiteSpace \cup {"(", ")", ",", "-"}

\* mutant: the taxonomy match is tried before the two heuristics
enhanced_looks_like_category_heading_taxonomy_first(s, yr) ==
    LET ls == lower_norm(s)
        s_clean == strip_ws(s)
        valid_categories == get_categories_for_year(yr)
    IN  IF Len(s_clean) < 4 \/ Len(s_clean) > 70 THEN FALSE
        ELSE IF \E x \in exclude_fragments : contains(ls, x) THEN FALSE
        ELSE IF s_clean \in Range(valid_categories) THEN TRUE
        ELSE IF \E k \in DOMAIN valid_categories :
                    \/ s_clean = simplified(valid_categories[k])
                    \/ /\ contains(lower(simplified(valid_categories[k])), "directing")
                       /\ contains(ls, "directing")
             THEN TRUE
        ELSE IF is_likely_actor_name(s_clean) \/ is_likely_film_title(s_clean) THEN FALSE
        ELSE IF match_best_capital(s_clean) THEN TRUE
        ELSE IF /\ \E indicator \in category_indicators : contains(ls, indicator)
                /\ match_capital_shape(s_clean)
                /\ Len(s_clean) >= 4
             THEN TRUE
        ELSE FALSE

enhanced_looks_like_category_heading(s, yr) ==
    LET ls == lower_norm(s)
        s_clean == strip_ws(s)
        valid_categories == get_categories_for_year(yr)
    IN  IF Len(s_clean) < 4 \/ Len(s_clean) > 70 THEN FALSE
        ELSE IF \E x \in exclude_fragments : contains(ls, x) THEN FALSE
        ELSE IF is_likely_actor_name(s_clean) \/ is_likely_film_title(s_clean) THEN FALSE
        ELSE IF s_clean \in Range(valid_categories) THEN TRUE
        ELSE IF \E k \in DOMAIN valid_categories :
                    \/ s_clean = simplified(valid_categories[k])
                    \/ /\ contains(lower(simplified(valid_categories[k])), "directing")
                       /\ contains(ls, "directing")
             THEN TRUE
        ELSE IF match_best_capital(s_clean) THEN TRUE
        ELSE IF /\ \E indicator \in category_indicators : contains(ls, indicator)
                /\ match_capital_shape(s_clean)
                /\ Len(s_clean) >= 4
             THEN TRUE
        ELSE FALSE

-----------------------------------------------------------------------------
(* The lines and years the driver is run on.  TLC evaluates a constant     *)
(* definition once, so the classifier's verdicts on them are tabulated;    *)
(* on any other argument the classifier is evaluated in place.             *)

DriverYears == {1929, 1950}

LineVocab ==
    {"winner", "nominee", "Outstanding Picture", "Actor",
     "Best Writing (Title Writing)", "Wings", "WINNER", "Nominees"}

heading_verdicts ==
    [p \in {norm(s) : s \in LineVocab} \X DriverYears |->
        enhanced_looks_like_category_heading(p[1], p[2])] @@ <<>>

\* a call enhanced_looks_like_category_heading(s, yr) made by the consumer or the driver
looks_like_heading(s, yr) ==
    IF <<s, yr>> \in DOMAIN heading_verdicts
    THEN heading_verdicts[<<s, yr>>]
    ELSE enhanced_looks_like_category_heading(s, yr)

-----------------------------------------------------------------------------
(* src/enhanced_parsing.py: the entry consumer                             *)

markers == {"winner", "nominee", "nominees"}

\* The while loop of enhanced_consume_entry from index k (0-based).  entry_parts are
\* the lines appended so far and idxs their indices; the result carries the index
\* the loop stopped at.
RECURSIVE consume_loop(_, _, _, _, _, _)
consume_loop(lns, k, yr, max_lines, entry_parts, idxs) ==
    IF k >= Len(lns) THEN [entry_parts |-> entry_parts, idxs |-> idxs, i |-> k]
    ELSE LET t == norm(lns[k + 1])
             low == lower(t)
         IN  IF t = "" THEN consume_loop(lns, k + 1, yr, max_lines, entry_parts, idxs)
             ELSE IF low \in markers
                  THEN IF entry_parts # <<>>
                       THEN [entry_parts |-> entry_parts, idxs |-> idxs, i |-> k]
                       ELSE consume_loop(lns, k + 1, yr, max_lines, entry_parts, idxs)
             ELSE IF looks_like_heading(t, yr) /\ entry_parts # <<>>
                  THEN [entry_parts |-> entry_parts, idxs |-> idxs, i |-> k]
             ELSE IF Len(entry_parts) + 1 >= max_lines
                  THEN [entry_parts |-> Append(entry_parts, t),
                        idxs |-> Append(idxs, k), i |-> k]
             ELSE consume_loop(lns, k + 1, yr, max_lines,
                               Append(entry_parts, t), Append(idxs, k))

\* " — ".join(entry_parts).strip(" —")
join_entry(entry_parts) == strip(join(" " \o EM \o " ", entry_parts), {" ", EM})

\* mutant: the cap is tested with > where the source has >=
RECURSIVE consume_loop_late_cap(_, _, _, _, _, _)
consume_loop_late_cap(lns, k, yr, max_lines, entry_parts, idxs) ==
    IF k >= Len(lns) THEN [entry_parts |-> entry_parts, idxs |-> idxs, i |-> k]
    ELSE LET t == norm(lns[k + 1])
             low == lower(t)
         IN  IF t = "" THEN consume_loop_late_cap(lns, k + 1, yr, max_lines, entry_parts, idxs)
             ELSE IF low \in markers
                  THEN IF entry_parts # <<>>
                       THEN [entry_parts |-> entry_parts, idxs |-> idxs, i |-> k]
                       ELSE consume_loop_late_cap(lns, k + 1, yr, max_lines, entry_parts, idxs)
             ELSE IF looks_like_heading(t, yr) /\ entry_parts # <<>>
                  THEN [entry_parts |-> entry_parts, idxs |-> idxs, i |-> k]
             ELSE IF Len(entry_parts) + 1 > max_lines
                  THEN [entry_parts |-> Append(entry_parts, t),
                        idxs |-> Append(idxs, k), i |-> k]
             ELSE consume_loop_late_cap(lns, k + 1, yr, max_lines,
                                        Append(entry_parts, t), Append(idxs, k))

enhanced_consume_entry_late_cap(lns, start_idx, yr, max_lines) ==
    LET r == consume_loop_late_cap(lns, start_idx + 1, yr, max_lines, <<>>, <<>>)
    IN  [entry |-> join_entry(r.entry_parts), i |-> r.i, idxs |-> r.idxs]

\* mutant: a heading does not stop the consumption
RECURSIVE consume_loop_through_headings(_, _, _, _, _, _)
consume_loop_through_headings(lns, k, yr, max_lines, entry_parts, idxs) ==
    IF k >= Len(lns) THEN [entry_parts |-> entry_parts, idxs |-> idxs, i |-> k]
    ELSE LET t == norm(lns[k + 1])
             low == lower(t)
         IN  IF t = "" THEN consume_loop_through_headings(lns, k + 1, yr, max_lines, entry_parts, idxs)
             ELSE IF low \in markers
                  THEN IF entry_parts # <<>>
                       THEN [entry_parts |-> entry_parts, idxs |-> idxs, i |-> k]
                       ELSE consume_loop_through_headings(lns, k + 1, yr, max_lines, entry_parts, idxs)
             ELSE IF Len(entry_parts) + 1 >= max_lines
                  THEN [entry_parts |-> Append(entry_parts, t),
                        idxs |-> Append(idxs, k), i |-> k]
             ELSE consume_loop_through_headings(lns, k + 1, yr, max_lines,
                                                Append(entry_parts, t), Append(idxs, k))

enhanced_consume_entry_through_headings(lns, start_idx, yr, max_lines) ==
    LET r == consume_loop_through_headings(lns, start_idx + 1, yr, max_lines, <<>>, <<>>)
    IN  [entry |-> join_entry(r.entry_parts), i |-> r.i, idxs |-> r.idxs]

\* mutant: a call that joined nothing returns the index it was given
enhanced_consume_entry_returns_start(lns, start_idx, yr, max_lines) ==
    LET r == consume_loop(lns, start_idx + 1, yr, max_lines, <<>>, <<>>)
    IN  [entry |-> join_entry(r.entry_parts),
         i |-> IF r.entry_parts = <<>> THEN start_idx ELSE r.i,
         idxs |-> r.idxs]

\* (entry, next index), with the indices of the joined lines kept beside them
enhanced_consume_entry(lns, start_idx, yr, max_lines) ==
    LET r == consume_loop(lns, start_idx + 1, yr, max_lines, <<>>, <<>>)
    IN  [entry |-> join_entry(r.entry_parts), i |-> r.i, idxs |-> r.idxs]

-----------------------------------------------------------------------------
(* src/enhanced_parsing.py: the film extractor                             *)

\* re.split(r"\s[—–-]\s", s)
sep_at(s, k) ==
    /\ k + 2 <= Len(s)
    /\ Ch(s, k) \in WhiteSpace
    /\ Ch(s, k + 1) \in {EM, EN, "-"}
    /\ Ch(s, k + 2) \in WhiteSpace

RECURSIVE split_dashes(_)
split_dashes(s) ==
    LET at == {k \in 1..Len(s) : sep_at(s, k)}
    IN  IF at = {} THEN <<s>>
        ELSE LET k == least(at)
             IN  <<SubSeq(s, 1, k - 1)>> \o split_dashes(SubSeq(s, k + 3, Len(s)))

use_right_side_for_film(category_canon) ==
    LET cl == lower(category_canon)
    IN  IF contains(cl, "original song") THEN TRUE
        ELSE IF contains(cl, "actor") \/ contains(cl, "actress") THEN TRUE
        ELSE FALSE

\* re.sub(r'^from\s+', '', film, flags=re.IGNORECASE)
drop_leading_from(film) ==
    IF /\ Len(film) >= 5
       /\ lower(SubSeq(film, 1, 4)) = "from"
       /\ Ch(film, 5) \in WhiteSpace
    THEN lstrip(SubSeq(film, 5, Len(film)), WhiteSpace)
    ELSE film

\* re.sub(r';\s*.*$', '', film): everything from the first semicolon on is dropped
cut_at_semicolon(film) ==
    LET k == first_in(film, {";"})
    IN  IF k = 0 THEN film ELSE SubSeq(film, 1, k - 1)

\* the "Cleanup" block both extractors end with
cleanup(film) ==
    strip_ws(cut_at_semicolon(drop_leading_from(strip(film, {" ", "'", "\""}))))

\* mutant: with two or more parts the last part is taken whatever the category
early_years_film_part_last(category_canon, entry, parts) ==
    IF Len(parts) >= 1 THEN parts[Len(parts)] ELSE norm(entry)

\* the part enhanced_early_years_film_extraction picks, before its cleanup
early_years_film_part(category_canon, entry, parts) ==
    LET s == norm(entry)
        cl == lower(category_canon)
    IN  IF Len(parts) = 1 THEN parts[1]
        ELSE IF Len(parts) >= 2
             THEN IF contains(cl, "actor") \/ contains(cl, "actress")
                  THEN parts[Len(parts)]
                  ELSE parts[1]
        ELSE s

enhanced_early_years_film_extraction(category_canon, entry, parts) ==
    cleanup(early_years_film_part(category_canon, entry, parts))

\* mutant: "original song" is treated like the other right-side categories
modern_years_film_part_no_song(category_canon, s, parts) ==
    IF use_right_side_for_film(category_canon)
    THEN IF parts # <<>> THEN parts[Len(parts)] ELSE s
    ELSE IF parts # <<>> THEN parts[1] ELSE s

\* the part the modern branch of enhanced_extract_film_only picks, before its cleanup
modern_years_film_part(category_canon, s, parts) ==
    LET cl == lower(category_canon)
    IN  IF use_right_side_for_film(category_canon)
        THEN IF contains(cl, "original song") /\ Len(parts) >= 2
             THEN parts[2]
             ELSE IF parts # <<>> THEN parts[Len(parts)] ELSE s
        ELSE IF parts # <<>> THEN parts[1] ELSE s

enhanced_extract_film_only(category_canon, entry, yr) ==
    LET s == norm(entry)
        parts == split_dashes(s)
    IN  IF is_early_years_format(yr)
        THEN enhanced_early_years_film_extraction(category_canon, entry, parts)
        ELSE cleanup(modern_years_film_part(category_canon, s, parts))

-----------------------------------------------------------------------------
(* src/enhanced_parsing.py: the winners/nominees driver                    *)

max(a, b) == IF a >= b THEN a ELSE b

\* for j in range(i - 1, max(-1, i - 15), -1): the first heading found going back
RECURSIVE look_back(_, _, _, _)
look_back(lns, j, stop, yr) ==
    IF j <= stop THEN <<>>
    ELSE LET cand == norm(lns[j + 1])
         IN  IF looks_like_heading(cand, yr) THEN <<cand>>
             ELSE look_back(lns, j - 1, stop, yr)

\* current_category_raw as a marker at index k leaves it
category_at_marker(lns, k, yr, cur) ==
    IF cur = <<>> THEN look_back(lns, k - 1, max(-1, k - 15), yr) ELSE cur

\* the first valid category whose simplified form is category_raw, else category_raw
RECURSIVE full_category_name(_, _)
full_category_name(category_raw, valid_categories) ==
    IF valid_categories = <<>> THEN category_raw
    ELSE IF category_raw = simplified(Head(valid_categories)) THEN Head(valid_categories)
    ELSE full_category_name(category_raw, Tail(valid_categories))

\* category_raw -> category, as both marker branches compute it
resolve_category(cur, yr) ==
    LET category_raw == IF cur = <<>> \/ cur = <<"">> THEN "Unknown Category" ELSE cur[1]
    IN  normalize_category(full_category_name(category_raw, get_categories_for_year(yr)), yr)

Row(yr, category, film, is_winner, url) ==
    [ceremony_year |-> yr, category |-> category, film |-> film,
     is_winner |-> is_winner, source_url |-> url]

key(r) == <<r.ceremony_year, r.category, r.film>>

\* the de-duplication loop; the dict is kept as the tuple of its values in
\* insertion order
RECURSIVE dedup_loop(_, _)
dedup_loop(rs, dedup) ==
    IF rs = <<>> THEN dedup
    ELSE LET r == Head(rs)
             at == {k \in DOMAIN dedup : key(dedup[k]) = key(r)}
         IN  IF at = {} THEN dedup_loop(Tail(rs), Append(dedup, r))
             ELSE LET k == CHOOSE x \in at : TRUE
                  IN  IF r.is_winner /\ ~dedup[k].is_winner
                      THEN dedup_loop(Tail(rs), [dedup EXCEPT ![k] = r])
                      ELSE dedup_loop(Tail(rs), dedup)

\* mutant: the first row of a key is kept, a later winner does not replace it
RECURSIVE dedup_loop_keep_first(_, _)
dedup_loop_keep_first(rs, dedup) ==
    IF rs = <<>> THEN dedup
    ELSE IF \E k \in DOMAIN dedup : key(dedup[k]) = key(Head(rs))
         THEN dedup_loop_keep_first(Tail(rs), dedup)
         ELSE dedup_loop_keep_first(Tail(rs), Append(dedup, Head(rs)))

dedup_rows_keep_first(rs) == dedup_loop_keep_first(rs, <<>>)

dedup_rows(rs) == dedup_loop(rs, <<>>)

\* the driver calls the entry consumer with max_lines=2
DRIVER_MAX_LINES == 2

\* one iteration of the while loop taking the heading branch on the line t
ScanHeading(t) ==
    /\ looks_like_heading(t, year)
    /\ current_category_raw' = <<t>>
    /\ i' = i + 1
    /\ UNCHANGED <<year, lines, source_url, rows, result, log, pc, call>>

\* mutant: after a marker the scan goes on at the next line, not at next_i
MarkerStep_steps_one(is_winner) ==
    \E cur \in {category_at_marker(lines, i, year, current_category_raw)} :
    \E category \in {resolve_category(cur, year)} :
    \E c \in {enhanced_consume_entry(lines, i, year, DRIVER_MAX_LINES)} :
    \E film \in {IF c.entry # "" THEN enhanced_extract_film_only(category, c.entry, year)
                  ELSE ""} :
        /\ current_category_raw' = cur
        /\ rows' = IF c.entry # ""
                   THEN Append(rows, Row(year, category, film, is_winner, source_url))
                   ELSE rows
        /\ log' = Append(log, [marker |-> i, is_winner |-> is_winner,
                                had |-> current_category_raw, raw |-> cur,
                               category |-> category, entry |-> c.entry,
                               idxs |-> c.idxs, next_i |-> c.i,
                               emitted |-> c.entry # ""])
        /\ i' = i + 1
        /\ UNCHANGED <<year, lines, source_url, result, pc, call>>

\* one iteration taking a marker branch: is_winner tells which of the two
MarkerStep(is_winner) ==
    \E cur \in {category_at_marker(lines, i, year, current_category_raw)} :
    \E category \in {resolve_category(cur, year)} :
    \E c \in {enhanced_consume_entry(lines, i, year, DRIVER_MAX_LINES)} :
    \E film \in {IF c.entry # "" THEN enhanced_extract_film_only(category, c.entry, year)
                  ELSE ""} :
        /\ current_category_raw' = cur
        /\ rows' = IF c.entry # ""
                   THEN Append(rows, Row(year, category, film, is_winner, source_url))
                   ELSE rows
        /\ log' = Append(log, [marker |-> i, is_winner |-> is_winner,
                                had |-> current_category_raw, raw |-> cur,
                               category |-> category, entry |-> c.entry,
                               idxs |-> c.idxs, next_i |-> c.i,
                               emitted |-> c.entry # ""])
        /\ i' = c.i
        /\ UNCHANGED <<year, lines, source_url, result, pc, call>>

ScanWinner(t, low) ==
    /\ ~looks_like_heading(t, year)
    /\ low = "winner"
    /\ MarkerStep(TRUE)

\* mutant: the nominee branch emits its record as a winner
ScanNominee_as_winner(t, low) ==
    /\ ~looks_like_heading(t, year)
    /\ low \in {"nominee", "nominees"}
    /\ MarkerStep(TRUE)

ScanNominee(t, low) ==
    /\ ~looks_like_heading(t, year)
    /\ low \in {"nominee", "nominees"}
    /\ MarkerStep(FALSE)

\* one iteration on any other line
ScanOther(t, low) ==
    /\ ~looks_like_heading(t, year)
    /\ low \notin markers
    /\ i' = i + 1
    /\ UNCHANGED <<year, lines, source_url, current_category_raw, rows, result, log, pc, call>>

\* one iteration of the while loop: t = norm(lines[i]), low = t.lower()
Scan ==
    /\ pc = "scan" /\ i < Len(lines)
    /\ \E t \in {norm(lines[i + 1])} :
       \E low \in {lower(t)} :
           \/ ScanHeading(t)
           \/ ScanWinner(t, low)
           \/ ScanNominee(t, low)
           \/ ScanOther(t, low)

\* the loop has ended: de-duplicate and return
Dedup ==
    /\ pc = "scan" /\ i >= Len(lines)
    /\ result' = dedup_rows(rows)
    /\ pc' = "done"
    /\ UNCHANGED <<year, lines, source_url, i, current_category_raw, rows, log, call>>

-----------------------------------------------------------------------------
(* The driver run on every line sequence up to MaxLines over LineVocab.    *)

MaxLines == 4

\* BASE.format(year=year), the URL run() hands to the driver
base_url(yr) == "https://www.oscars.org/oscars/ceremonies/" \o str(yr)

NoCall == [fn |-> "none"]

Init ==
    /\ year \in DriverYears
    /\ lines \in UNION {[1..n -> LineVocab] : n \in 0..MaxLines}
    /\ source_url = base_url(year)
    /\ i = 0
    /\ current_category_raw = <<>>
    /\ rows = <<>>
    /\ result = <<>>
    /\ log = <<>>
    /\ pc = "scan"
    /\ call = NoCall

Next == Scan \/ Dedup

Spec == Init /\ [][Next]_vars

\* the driver's variables outside a driver run
Idle ==
    /\ year = 0
    /\ lines = <<>>
    /\ source_url = ""
    /\ i = 0
    /\ current_category_raw = <<>>
    /\ rows = <<>>
    /\ result = <<>>
    /\ log = <<>>
    /\ pc = "idle"

-----------------------------------------------------------------------------
(* Calls of the taxonomy's two functions, one per behaviour: Init draws    *)
(* the argument and the actions apply the function.                        *)

\* how far the query years reach before the first and after the last era
YearMargin == 40

QueryYears == (1929 - YearMargin)..(2020 + YearMargin)

\* the category names normalize_category is called on
QueryNames ==
    get_all_known_categories \cup taxonomy_labels
        \cup {simplified(c) : c \in taxonomy_labels}
        \cup {"Unknown Category", "Best Writing (Title Writing)"}

InitTaxonomy ==
    /\ Idle
    /\ \/ \E y \in QueryYears :
              call = [fn |-> "get_categories_for_year", year |-> y,
                      stage |-> 0, ret |-> <<>>]
       \/ \E c \in QueryNames :
              call = [fn |-> "normalize_category", category_name |-> c,
                      stage |-> 0, once |-> "", twice |-> ""]

CallGetCategoriesForYear ==
    /\ call.fn = "get_categories_for_year" /\ call.stage = 0
    /\ call' = [call EXCEPT !.stage = 1, !.ret = get_categories_for_year(call.year)]
    /\ UNCHANGED driverVars

CallNormalizeCategory ==
    /\ call.fn = "normalize_category" /\ call.stage = 0
    /\ call' = [call EXCEPT !.stage = 1,
                            !.once = normalize_category(call.category_name, <<>>)]
    /\ UNCHANGED driverVars

\* the result normalised a second time
CallNormalizeCategoryAgain ==
    /\ call.fn = "normalize_category" /\ call.stage = 1
    /\ call' = [call EXCEPT !.stage = 2, !.twice = normalize_category(call.once, <<>>)]
    /\ UNCHANGED driverVars

NextTaxonomy ==
    CallGetCategoriesForYear \/ CallNormalizeCategory \/ CallNormalizeCategoryAgain

SpecTaxonomy == InitTaxonomy /\ [][NextTaxonomy]_vars

-----------------------------------------------------------------------------
(* Calls of the classifier on one line and one year.                       *)

\* the words candidate lines are built from, and how many of them at most
Words ==
    <<"Best", "Outstanding", "Picture", "Actor", "Mary", "Pickford", "wings",
      "Sound", "Recording", "directing">>

MaxWords == 2

ClassifyYears == {1900, 1929, 1934, 1935, 1950, 1990, 2020}

ClassifyLines ==
    taxonomy_labels
        \cup {simplified(c) : c \in taxonomy_labels}
        \cup {"Mary Pickford", "Sunrise", "Wings", "Best Writing (Title Writing)",
              "winner", "Nominees", "  Best Actor ", "Art", "View by Category"}
        \cup UNION {{join(" ", [k \in 1..n |-> Words[w[k]]]) : w \in [1..n -> DOMAIN Words]} :
                    n \in 1..MaxWords}

InitClassify ==
    /\ Idle
    /\ \E s \in ClassifyLines, y \in ClassifyYears :
           call = [fn |-> "enhanced_looks_like_category_heading", s |-> s, year |-> y,
                   stage |-> 0, ret |-> FALSE]

CallClassify ==
    /\ call.fn = "enhanced_looks_like_category_heading" /\ call.stage = 0
    /\ call' = [call EXCEPT !.stage = 1,
                            !.ret = enhanced_looks_like_category_heading(call.s, call.year)]
    /\ UNCHANGED driverVars

NextClassify == CallClassify

SpecClassify == InitClassify /\ [][NextClassify]_vars

-----------------------------------------------------------------------------
(* One marker's path from heading and entry lines to the film: the         *)
(* category is resolved, the entry joined, a part picked and cleaned up.   *)

\* how many lines an entry is joined from at most
MaxEntryLines == 2

FilmYears == {1928, 1929, 1934, 1935, 1950}

FilmHeadings ==
    {"Outstanding Picture", "Actor", "Best Supporting Actress", "Best Director",
     "Best Music (Original Song)", "Best Actor Original Song"}

EntryLineVocab ==
    {"Wings", "Paramount", "Emil Jannings - The Last Command", "Over the Rainbow",
     "from The Wizard of Oz; Music by Harold Arlen", "'Sunrise'",
     "Music (Original Song)", "Over the Rainbow " \o EM \o " The Wizard of Oz"}

InitFilm ==
    /\ Idle
    /\ \E h \in FilmHeadings, y \in FilmYears, n \in 1..MaxEntryLines :
       \E ls \in [1..n -> EntryLineVocab] :
           call = [fn |-> "enhanced_extract_film_only", heading |-> h, year |-> y,
                   entry_lines |-> ls, stage |-> 0, category |-> "", entry |-> "",
                   parts |-> <<>>, part |-> "", film |-> ""]

\* category = normalize_category(full_category_name, year); entry = the joined lines
FilmResolve ==
    /\ call.fn = "enhanced_extract_film_only" /\ call.stage = 0
    /\ call' = [call EXCEPT !.stage = 1,
                            !.category = resolve_category(<<call.heading>>, call.year),
                            !.entry = join_entry(call.entry_lines)]
    /\ UNCHANGED driverVars

\* enhanced_extract_film_only up to its cleanup: the split and the part picked
FilmPick ==
    /\ call.fn = "enhanced_extract_film_only" /\ call.stage = 1 /\ call.entry # ""
    /\ \E s \in {norm(call.entry)} :
       \E parts \in {split_dashes(s)} :
           call' = [call EXCEPT
                      !.stage = 2,
                      !.parts = parts,
                      !.part = IF is_early_years_format(call.year)
                               THEN early_years_film_part(call.category, call.entry, parts)
                               ELSE modern_years_film_part(call.category, s, parts)]
    /\ UNCHANGED driverVars

\* the value enhanced_extract_film_only returns
FilmReturn ==
    /\ call.fn = "enhanced_extract_film_only" /\ call.stage = 2
    /\ call' = [call EXCEPT
                  !.stage = 3,
                  !.film = enhanced_extract_film_only(call.category, call.entry, call.year)]
    /\ UNCHANGED driverVars

NextFilm == FilmResolve \/ FilmPick \/ FilmReturn

SpecFilm == InitFilm /\ [][NextFilm]_vars

-----------------------------------------------------------------------------
(* The line extractor: the page's stripped strings between the             *)
(* "Winners & Nominees" marker and the end of the section.                 *)

UpperOf == [c \in LowerSet |-> Ch(UpperLetters, CHOOSE k \in 1..Len(LowerLetters) : Ch(LowerLetters, k) = c)]

\* str.upper(): the string is taken apart at its first lower-case letter
RECURSIVE upper(_)
upper(s) ==
    LET k == first_in(s, LowerSet)
    IN  IF k = 0 THEN s
        ELSE SubSeq(s, 1, k - 1) \o UpperOf[Ch(s, k)] \o upper(SubSeq(s, k + 1, Len(s)))

\* ("0-9" in s_clean and "ALL" in s_clean) or s_clean == "0-9"
index_marker(s_clean) ==
    (contains(s_clean, "0-9") /\ contains(s_clean, "ALL")) \/ s_clean = "0-9"

\* mutant: the start marker is looked for in s_clean, not in its upper-case form
wn_step_case_sensitive(yr, in_section, out, s) ==
    LET s_clean == norm(s)
        up == upper(s_clean)
        go_on == [in_section |-> TRUE, out |-> out, stop |-> FALSE]
        break == [in_section |-> TRUE, out |-> out, stop |-> TRUE]
        append == [in_section |-> TRUE, out |-> Append(out, s_clean), stop |-> FALSE]
    IN  IF ~in_section
        THEN [in_section |-> startswith(s_clean, "WINNERS & NOMINEES"), out |-> out,
              stop |-> FALSE]
        ELSE IF is_early_years_format(yr)
        THEN IF index_marker(s_clean) THEN break
             ELSE IF startswith(up, "VIEW BY FILM") \/ startswith(up, "VIEW BY CATEGORY")
                  THEN go_on
             ELSE IF startswith(up, "ALPHABETICAL") \/ startswith(up, "INDEX") THEN break
             ELSE append
        ELSE IF index_marker(s_clean) THEN break ELSE append

\* mutant: in an early year a "VIEW BY ..." line ends the section
wn_step_view_ends(yr, in_section, out, s) ==
    LET s_clean == norm(s)
        up == upper(s_clean)
        break == [in_section |-> TRUE, out |-> out, stop |-> TRUE]
        append == [in_section |-> TRUE, out |-> Append(out, s_clean), stop |-> FALSE]
    IN  IF ~in_section
        THEN [in_section |-> startswith(up, "WINNERS & NOMINEES"), out |-> out,
              stop |-> FALSE]
        ELSE IF is_early_years_format(yr)
        THEN IF index_marker(s_clean) THEN break
             ELSE IF startswith(up, "VIEW BY FILM") \/ startswith(up, "VIEW BY CATEGORY")
                  THEN break
             ELSE IF startswith(up, "ALPHABETICAL") \/ startswith(up, "INDEX") THEN break
             ELSE append
        ELSE IF index_marker(s_clean) THEN break ELSE append

\* mutant: outside the section only the marker line is passed over
wn_step_no_gate(yr, in_section, out, s) ==
    LET s_clean == norm(s)
        up == upper(s_clean)
        go_on == [in_section |-> in_section, out |-> out, stop |-> FALSE]
        break == [in_section |-> in_section, out |-> out, stop |-> TRUE]
        append == [in_section |-> in_section, out |-> Append(out, s_clean), stop |-> FALSE]
    IN  IF ~in_section /\ startswith(up, "WINNERS & NOMINEES")
        THEN [in_section |-> TRUE, out |-> out, stop |-> FALSE]
        ELSE IF is_early_years_format(yr)
        THEN IF index_marker(s_clean) THEN break
             ELSE IF startswith(up, "VIEW BY FILM") \/ startswith(up, "VIEW BY CATEGORY")
                  THEN go_on
             ELSE IF startswith(up, "ALPHABETICAL") \/ startswith(up, "INDEX") THEN break
             ELSE append
        ELSE IF index_marker(s_clean) THEN break ELSE append

\* one iteration of the for loop on the string s: the new in_section and out, and
\* whether the loop is left (break)
wn_step(yr, in_section, out, s) ==
    LET s_clean == norm(s)
        up == upper(s_clean)
        go_on == [in_section |-> TRUE, out |-> out, stop |-> FALSE]
        break == [in_section |-> TRUE, out |-> out, stop |-> TRUE]
        append == [in_section |-> TRUE, out |-> Append(out, s_clean), stop |-> FALSE]
    IN  IF ~in_section
        THEN [in_section |-> startswith(up, "WINNERS & NOMINEES"), out |-> out,
              stop |-> FALSE]
        ELSE IF is_early_years_format(yr)
        THEN IF index_marker(s_clean) THEN break
             ELSE IF startswith(up, "VIEW BY FILM") \/ startswith(up, "VIEW BY CATEGORY")
                  THEN go_on
             ELSE IF startswith(up, "ALPHABETICAL") \/ startswith(up, "INDEX") THEN break
             ELSE append
        ELSE IF index_marker(s_clean) THEN break ELSE append

\* the for loop from the string at position k + 1 on
RECURSIVE wn_loop(_, _, _, _, _)
wn_loop(strings, yr, k, in_section, out) ==
    IF k >= Len(strings) THEN out
    ELSE LET st == wn_step(yr, in_section, out, strings[k + 1])
         IN  IF st.stop THEN st.out
             ELSE wn_loop(strings, yr, k + 1, st.in_section, st.out)

\* strings stands for list(soup.stripped_strings)
enhanced_extract_wn_lines(strings, yr) == wn_loop(strings, yr, 0, FALSE, <<>>)

\* how many stripped strings a page has at most
MaxStrings == 3

ExtractYears == {1929, 1934, 1935, 1950}

\* stripped strings of a page: never empty, no white space at either end
StringVocab ==
    {"Winners & Nominees", "0-9 ALL", "0-9", "View by Film", "VIEW BY CATEGORY",
     "Alphabetical", "Index", "Wings", "Best  Actor"}

InitExtract ==
    /\ Idle
    /\ \E y \in ExtractYears, n \in 0..MaxStrings :
       \E ss \in [1..n -> StringVocab] :
           call = [fn |-> "enhanced_extract_wn_lines", strings |-> ss, year |-> y,
                   k |-> 0, in_section |-> FALSE, out |-> <<>>, idxs |-> <<>>,
                   stage |-> "loop", ret |-> <<>>, warning |-> ""]

\* one iteration of the for loop; idxs records which strings were appended
ExtractStep ==
    /\ call.fn = "enhanced_extract_wn_lines" /\ call.stage = "loop"
    /\ call.k < Len(call.strings)
    /\ \E st \in {wn_step(call.year, call.in_section, call.out, call.strings[call.k + 1])} :
           call' = [call EXCEPT
                      !.k = call.k + 1,
                      !.in_section = st.in_section,
                      !.out = st.out,
                      !.idxs = IF Len(st.out) > Len(call.out)
                               THEN Append(call.idxs, call.k + 1) ELSE call.idxs,
                      !.stage = IF st.stop THEN "returned" ELSE "loop",
                      !.ret = IF st.stop THEN st.out ELSE <<>>]
    /\ UNCHANGED driverVars

\* the loop has run through every string: return out
ExtractReturn ==
    /\ call.fn = "enhanced_extract_wn_lines" /\ call.stage = "loop"
    /\ call.k >= Len(call.strings)
    /\ call' = [call EXCEPT !.stage = "returned", !.ret = call.out]
    /\ UNCHANGED driverVars

\* run: lines = enhanced_extract_wn_lines(soup, year); without lines the year is
\* skipped with a warning, with lines the driver is called
RunSectionCheck ==
    /\ call.fn = "enhanced_extract_wn_lines" /\ call.stage = "returned"
    /\ call' = [call EXCEPT
                  !.stage = IF call.ret = <<>> THEN "skipped" ELSE "parse",
                  !.warning = IF call.ret = <<>>
                              THEN "Could not find 'Winners & Nominees' block" ELSE ""]
    /\ UNCHANGED driverVars

NextExtract == ExtractStep \/ ExtractReturn \/ RunSectionCheck

SpecExtract == InitExtract /\ [][NextExtract]_vars

-----------------------------------------------------------------------------
(* Calls of the entry consumer: any line sequence, start index and cap.    *)

\* the greatest cap max_lines the consumer is called with
MaxCap == 3

ConsumeYears == {1929, 1950}

\* lines as a caller may pass them: empty, padded, markers, headings, content
ConsumeLineVocab == {"winner", "Outstanding Picture", " Wings", "Paramount", ""}

InitConsume ==
    /\ Idle
    /\ \E y \in ConsumeYears, n \in 1..MaxLines, m \in 1..MaxCap :
       \E ls \in [1..n -> ConsumeLineVocab], s \in 0..(n - 1) :
           call = [fn |-> "enhanced_consume_entry", lines |-> ls, start_idx |-> s,
                   year |-> y, max_lines |-> m, stage |-> 0,
                   ret |-> [entry |-> "", i |-> 0, idxs |-> <<>>]]

\* entry, next_i = enhanced_consume_entry(lines, start_idx, year, max_lines)
CallConsume ==
    /\ call.fn = "enhanced_consume_entry" /\ call.stage = 0
    /\ call' = [call EXCEPT
                  !.stage = 1,
                  !.ret = enhanced_consume_entry(call.lines, call.start_idx, call.year,
                                                 call.max_lines)]
    /\ UNCHANGED driverVars

NextConsume == CallConsume

SpecConsume == InitConsume /\ [][NextConsume]_vars

-----------------------------------------------------------------------------
(* The driver on long line sequences: a heading that the first marker's    *)
(* entry took in, a run of content lines, and a second marker that has to  *)
(* look back for it.                                                       *)

\* the greatest number of content lines between the heading and the second marker
MaxGap == 15

RECURSIVE repeat(_, _)
repeat(s, n) == IF n = 0 THEN <<>> ELSE <<s>> \o repeat(s, n - 1)

InitLookBack ==
    /\ year \in DriverYears
    /\ \E m1, m2 \in {"winner", "nominee"}, h \in {"Outstanding Picture", "Actor"},
          g \in 0..MaxGap :
           lines = <<m1, h>> \o repeat("Wings", g) \o <<m2, "Wings">>
    /\ source_url = base_url(year)
    /\ i = 0
    /\ current_category_raw = <<>>
    /\ rows = <<>>
    /\ result = <<>>
    /\ log = <<>>
    /\ pc = "scan"
    /\ call = NoCall

SpecLookBack == InitLookBack /\ [][Next]_vars

-----------------------------------------------------------------------------
(* src/scrape-oscars-enhanced.py: run, the batch over the years.  The      *)
(* fetch is an input: per year it gives no HTML, raises, or gives a page   *)
(* (its stripped strings).  The parse of a page is the driver above.       *)

\* how many years a batch has at most
MaxBatch == 2

\* start_year; the batch then crosses from the early era into the modern one
RunStart == 1934

\* time.sleep(delay) raises ValueError for a negative delay
RunDelays == {2, -1}

Pages ==
    {<<"Winners & Nominees", "winner", "Wings", "0-9 ALL">>,
     <<"Wings", "winner">>,
     <<"Winners & Nominees", "Wings">>,
     <<"Winners & Nominees", "Outstanding Picture", "nominee", "Wings", "winner", "Wings">>}

\* what fetch_html_cached does for a year
Fetches ==
    {[kind |-> "none", strings |-> <<>>], [kind |-> "raise", strings |-> <<>>]}
        \cup {[kind |-> "html", strings |-> p] : p \in Pages}

InitRun ==
    /\ Idle
    /\ \E e \in (RunStart - 1)..(RunStart + MaxBatch - 1), d \in RunDelays :
       \E f \in [RunStart..e -> Fetches] :
           call = [fn |-> "run", start_year |-> RunStart, end_year |-> e, delay |-> d,
                   fetch |-> f, year |-> RunStart, pc |-> "loop", all_rows |-> <<>>,
                   done |-> <<>>, written |-> <<>>]

\* what is recorded of one iteration of the for loop
Iteration(yr, html, lns, parsed, raised, warnings) ==
    [year |-> yr, html |-> html, lines |-> lns, rows |-> parsed, raised |-> raised,
     warnings |-> warnings]

RunInLoop == call.fn = "run" /\ call.pc = "loop" /\ call.year <= call.end_year

\* html_content is None: warning, continue
RunNoHtml ==
    /\ RunInLoop /\ call.fetch[call.year].kind = "none"
    /\ call' = [call EXCEPT
                  !.year = call.year + 1,
                  !.done = Append(call.done,
                                  Iteration(call.year, FALSE, <<>>, <<>>, "",
                                            <<"Could not fetch or load HTML">>))]
    /\ UNCHANGED driverVars

\* mutant: an exception leaves the for loop
RunRaises_leaves_loop ==
    /\ RunInLoop /\ call.fetch[call.year].kind = "raise"
    /\ call' = [call EXCEPT
                  !.year = call.end_year + 1,
                  !.done = Append(call.done,
                                  Iteration(call.year, FALSE, <<>>, <<>>, "fetch",
                                            <<"exception">>))]
    /\ UNCHANGED driverVars

\* the fetch raises: except Exception: warning, continue
RunRaises ==
    /\ RunInLoop /\ call.fetch[call.year].kind = "raise"
    /\ call' = [call EXCEPT
                  !.year = call.year + 1,
                  !.done = Append(call.done,
                                  Iteration(call.year, FALSE, <<>>, <<>>, "fetch",
                                            <<"exception">>))]
    /\ UNCHANGED driverVars

\* lines = enhanced_extract_wn_lines(soup, year) is empty: warning, continue
RunNoSection ==
    /\ RunInLoop /\ call.fetch[call.year].kind = "html"
    /\ enhanced_extract_wn_lines(call.fetch[call.year].strings, call.year) = <<>>
    /\ call' = [call EXCEPT
                  !.year = call.year + 1,
                  !.done = Append(call.done,
                                  Iteration(call.year, TRUE, <<>>, <<>>, "",
                                            <<"Could not find 'Winners & Nominees' block">>))]
    /\ UNCHANGED driverVars

\* rows = enhanced_parse_winners_nominees(lines, year, url): the call
RunParse ==
    /\ RunInLoop /\ call.fetch[call.year].kind = "html"
    /\ \E lns \in {enhanced_extract_wn_lines(call.fetch[call.year].strings, call.year)} :
           /\ lns # <<>>
           /\ lines' = lns
    /\ year' = call.year
    /\ source_url' = base_url(call.year)
    /\ i' = 0
    /\ current_category_raw' = <<>>
    /\ rows' = <<>>
    /\ result' = <<>>
    /\ log' = <<>>
    /\ pc' = "scan"
    /\ call' = [call EXCEPT !.pc = "parse"]

\* the driver has returned: the rows are added to all_rows, or the warning given
\* when there are none; then time.sleep(delay), whose exception is caught
RunCollect ==
    /\ call.fn = "run" /\ call.pc = "parse" /\ pc = "done"
    /\ call' = [call EXCEPT
                  !.pc = "loop",
                  !.year = call.year + 1,
                  !.all_rows = call.all_rows \o result,
                  !.done = Append(call.done,
                                  Iteration(call.year, TRUE, lines, result,
                                            IF call.delay < 0 THEN "sleep" ELSE "",
                                            (IF result = <<>> THEN <<"No rows parsed">> ELSE <<>>)
                                              \o (IF call.delay < 0 THEN <<"exception">> ELSE <<>>)))]
    /\ pc' = "idle"
    /\ UNCHANGED <<year, lines, source_url, i, current_category_raw, rows, result, log>>

\* after the loop: write_by_category(all_rows, OUTDIR), and run returns
RunWrite ==
    /\ call.fn = "run" /\ call.pc = "loop" /\ call.year > call.end_year
    /\ call' = [call EXCEPT !.pc = "returned", !.written = Append(call.written, call.all_rows)]
    /\ UNCHANGED driverVars

NextRun ==
    \/ RunNoHtml \/ RunRaises \/ RunNoSection \/ RunParse
    \/ Scan \/ Dedup
    \/ RunCollect \/ RunWrite

SpecRun == InitRun /\ [][NextRun]_vars

-----------------------------------------------------------------------------
(* src/scrape-oscars-enhanced.py: slugify, the file name of a category.    *)

\* what \w matches among the characters used here
WordSet == UpperSet \cup LowerSet \cup {Ch(Digits, k) : k \in 1..Len(Digits)} \cup {"_"}

\* re.sub of a character class by "": the characters of s that are in keep
RECURSIVE keep_only(_, _)
keep_only(s, keep) ==
    LET k == first_not_in(s, keep)
    IN  IF k = 0 THEN s
        ELSE SubSeq(s, 1, k - 1) \o keep_only(SubSeq(s, k + 1, Len(s)), keep)

\* re.sub(r"[...]+", new, s): every maximal run of characters of seps becomes new
RECURSIVE sub_runs(_, _, _)
sub_runs(s, seps, new) ==
    LET k == first_in(s, seps)
    IN  IF k = 0 THEN s
        ELSE SubSeq(s, 1, k - 1) \o new
                 \o sub_runs(lstrip(SubSeq(s, k, Len(s)), seps), seps, new)

slugify(name) ==
    LET s1 == strip_ws(name)
        s2 == replace(s1, "&", "and")
        s3 == keep_only(s2, WordSet \cup WhiteSpace \cup {"-", "(", ")"})
    IN  sub_runs(s3, WhiteSpace \cup {"/"}, "_")

\* how many pieces a category name is put together from
MaxPieces == 3

PieceVocab ==
    {"Actor", "Sound", "9", " ", "  ", "/", " / ", "&", "(Song)", "-", ":", "_", ", "}

RECURSIVE concat(_)
concat(ss) == IF ss = <<>> THEN "" ELSE Head(ss) \o concat(Tail(ss))

InitSlug ==
    /\ Idle
    /\ \E n \in 1..MaxPieces :
       \E ps \in [1..n -> PieceVocab] :
           call = [fn |-> "slugify", name |-> concat(ps), stage |-> "called", ret |-> ""]

\* path = outdir / f"{slugify(cat)}.csv"
CallSlugify ==
    /\ call.fn = "slugify" /\ call.stage = "called"
    /\ call' = [call EXCEPT !.stage = "returned", !.ret = slugify(call.name)]
    /\ UNCHANGED driverVars

NextSlug == CallSlugify

SpecSlug == InitSlug /\ [][NextSlug]_vars

-----------------------------------------------------------------------------
(* The driver run on longer sections over fewer lines: two headings, two   *)
(* markers and one title, so that a heading can stand between two markers  *)
(* that both have an entry.                                                *)

MaxSectionLines == 5

SectionLineVocab == {"winner", "nominee", "Outstanding Picture", "Actor", "Wings"}

InitSection ==
    /\ year \in DriverYears
    /\ lines \in UNION {[1..n -> SectionLineVocab] : n \in 0..MaxSectionLines}
    /\ source_url = base_url(year)
    /\ i = 0
    /\ current_category_raw = <<>>
    /\ rows = <<>>
    /\ result = <<>>
    /\ log = <<>>
    /\ pc = "scan"
    /\ call = NoCall

SpecSection == InitSection /\ [][Next]_vars

-----------------------------------------------------------------------------
(* The claims.                                                             *)

\* the row the driver appended for the marker log[k] (log[k].emitted holds)
row_of(lg, rs, k) == rs[Cardinality({h \in 1..k : lg[h].emitted})]

\* C1: the list the driver returns holds at most one record per
\* (ceremony_year, category, film), and a triple for which the scan produced a
\* winner row is retained as a winner.
C1_DedupKeepsWinner ==
    pc = "done" =>
        /\ \A a, b \in DOMAIN result : key(result[a]) = key(result[b]) => a = b
        /\ \A k \in DOMAIN rows :
               rows[k].is_winner =>
                   \E a \in DOMAIN result :
                       key(result[a]) = key(rows[k]) /\ result[a].is_winner

\* a nominee row and a later winner row of the same triple were merged
C1_Witness ==
    /\ pc = "done"
    /\ \E a, b \in DOMAIN rows :
           a < b /\ key(rows[a]) = key(rows[b]) /\ ~rows[a].is_winner /\ rows[b].is_winner
    /\ Len(result) < Len(rows)

\* C2: get_categories_for_year(y) is the non-empty snapshot of the greatest era
\* start year <= y, and the snapshot of 1929 when y precedes every era.
C2_EraLookup ==
    (call.fn = "get_categories_for_year" /\ call.stage = 1) =>
        LET eras == {int(y) : y \in DOMAIN CATEGORY_HISTORY}
            below == {e \in eras : e <= call.year}
        IN  /\ call.ret # <<>>
            /\ below # {} =>
                   call.ret = CATEGORY_HISTORY[str(CHOOSE e \in below : \A f \in below : f <= e)]
            /\ below = {} => call.ret = CATEGORY_HISTORY["1929"]

\* a year strictly inside an era got that era's snapshot
C2_Witness ==
    /\ call.fn = "get_categories_for_year" /\ call.stage = 1
    /\ call.year = 1949
    /\ call.ret = CATEGORY_HISTORY["1940"]

\* C3: for every key of the alias table, normalising twice equals normalising
\* once: the mapped value is itself a key that maps to itself.
C3_AliasClosure ==
    (/\ call.fn = "normalize_category" /\ call.stage = 2
     /\ call.category_name \in DOMAIN COMPREHENSIVE_CATEGORIES) =>
        /\ call.twice = call.once
        /\ call.once \in DOMAIN COMPREHENSIVE_CATEGORIES
        /\ COMPREHENSIVE_CATEGORIES[call.once] = call.once

\* a historical spelling was mapped to another name, and that name to itself
C3_Witness ==
    /\ call.fn = "normalize_category" /\ call.stage = 2
    /\ call.category_name = "Best Sound Recording"
    /\ call.once = "Best Sound"
    /\ call.twice = "Best Sound"

\* C4: every label of every era snapshot is normalised to a canonical name, a
\* value of the alias table.
C4_HistoryLabelsCanonical ==
    (/\ call.fn = "normalize_category" /\ call.stage >= 1
     /\ call.category_name \in taxonomy_labels) =>
        call.once \in get_modern_categories

\* C5: a record's category is "Unknown Category" when no heading was recorded or
\* found, and the raw heading itself when it is neither the simplified form of a
\* label of the year nor a key of the alias table.
C5_CategoryFallback ==
    \A k \in DOMAIN log :
        log[k].emitted =>
            LET raw == log[k].raw
                r == row_of(log, rows, k)
            IN  /\ raw = <<>> => r.category = "Unknown Category"
                /\ (/\ raw # <<>>
                    /\ \A c \in Range(get_categories_for_year(year)) :
                           replace(replace(c, "Best ", ""), "Outstanding ", "") # raw[1]
                    /\ raw[1] \notin DOMAIN COMPREHENSIVE_CATEGORIES) =>
                       r.category = raw[1]

\* a record was emitted under a heading that nothing resolves
C5_Witness ==
    \E k \in DOMAIN log :
        /\ log[k].emitted
        /\ log[k].raw = <<"Best Writing (Title Writing)">>
        /\ log[k].raw[1] \notin DOMAIN COMPREHENSIVE_CATEGORIES
        /\ log[k].raw[1] \notin Range(get_categories_for_year(year))
        /\ row_of(log, rows, k).category = "Best Writing (Title Writing)"

\* C6: at 1929 the scan takes the line "Outstanding Picture" as a heading, and
\* every record emitted under that heading has category "Best Picture".
C6_OutstandingPicture1929 ==
    [][year = 1929 =>
         /\ (pc = "scan" /\ i < Len(lines) /\ norm(lines[i + 1]) = "Outstanding Picture") =>
                (current_category_raw' = <<"Outstanding Picture">> /\ i' = i + 1)
         /\ \A k \in DOMAIN log' :
                (log'[k].emitted /\ log'[k].raw = <<"Outstanding Picture">>) =>
                    row_of(log', rows', k).category = "Best Picture"]_vars

\* at 1929 a record was emitted under the heading "Outstanding Picture"
C6_Witness ==
    /\ year = 1929
    /\ \E k \in DOMAIN log :
           /\ log[k].emitted
           /\ log[k].raw = <<"Outstanding Picture">>
           /\ row_of(log, rows, k).category = "Best Picture"

C8_LaterEraLabelsRefused1929 ==
    (/\ call.fn = "enhanced_looks_like_category_heading" /\ call.stage = 1
     /\ call.year = 1929
     /\ call.s \in {"Best Actor in a Leading Role", "Best Actress in a Leading Role"}) =>
        ~call.ret

\* C9: in the early era (1929-1934) the part picked is the only part, or with two
\* or more parts the last one for an "actor"/"actress" category and the first one
\* otherwise; ["Wings", "Paramount"] under "Outstanding Picture" at 1929 gives "Wings".
C9_EarlyFilmPart ==
    (/\ call.fn = "enhanced_extract_film_only" /\ call.stage >= 2
     /\ 1929 <= call.year /\ call.year <= 1934) =>
        LET cl == lower(call.category)
            n == Len(call.parts)
        IN  /\ n = 1 => call.part = call.parts[1]
            /\ n >= 2 =>
                   call.part = IF contains(cl, "actor") \/ contains(cl, "actress")
                               THEN call.parts[n]
                               ELSE call.parts[1]
            /\ (/\ call.stage = 3 /\ call.year = 1929
                /\ call.heading = "Outstanding Picture"
                /\ call.entry_lines = <<"Wings", "Paramount">>) =>
                   call.film = "Wings"

\* the scenario: two parts under "Outstanding Picture" at 1929
C9_Witness ==
    /\ call.fn = "enhanced_extract_film_only" /\ call.stage = 3
    /\ call.year = 1929
    /\ call.heading = "Outstanding Picture"
    /\ call.entry_lines = <<"Wings", "Paramount">>
    /\ call.parts = <<"Wings", "Paramount">>
    /\ call.film = "Wings"

\* C10: outside 1929-1934 the part picked is, for an "original song" category,
\* part index 1 when there are two parts or more and else the last part; for
\* another "actor"/"actress" category the last part; otherwise the first part.
C10_ModernFilmPart ==
    (/\ call.fn = "enhanced_extract_film_only" /\ call.stage >= 2
     /\ ~(1929 <= call.year /\ call.year <= 1934)) =>
        LET cl == lower(call.category)
            n == Len(call.parts)
        IN  call.part =
                IF contains(cl, "original song")
                THEN (IF n >= 2 THEN call.parts[2] ELSE call.parts[n])
                ELSE IF contains(cl, "actor") \/ contains(cl, "actress")
                     THEN call.parts[n]
                     ELSE call.parts[1]

\* an original-song entry of three parts: the middle part was picked
C10_Witness ==
    /\ call.fn = "enhanced_extract_film_only" /\ call.stage >= 2
    /\ call.year = 1950
    /\ contains(lower(call.category), "original song")
    /\ Len(call.parts) = 3
    /\ call.part = call.parts[2]
    /\ call.part # call.parts[3]


\* C11: at a modern year, under the category "Best Music (Original Song)", the
\* film extracted from the entry
\* "Music (Original Song) - Over the Rainbow - The Wizard of Oz" (em dashes)
\* is "The Wizard of Oz".
C11_SongEntryGivesFilm ==
    (/\ call.fn = "enhanced_extract_film_only" /\ call.stage = 3
     /\ ~(1929 <= call.year /\ call.year <= 1934)
     /\ call.category = "Best Music (Original Song)"
     /\ call.entry = "Music (Original Song) " \o EM \o " Over the Rainbow "
                         \o EM \o " The Wizard of Oz") =>
        call.film = "The Wizard of Oz"

\* the positions of the strings that start, whatever the case, with the start marker
start_positions(ss) ==
    {k \in 1..Len(ss) : startswith(upper(norm(ss[k])), "WINNERS & NOMINEES")}

\* C12: for a modern year the extractor returns exactly the normalised strings, in
\* document order, strictly after the first string starting (in any case) with
\* "WINNERS & NOMINEES" and strictly before the first later string that contains
\* both "0-9" and "ALL" or equals "0-9".
C12_ModernSection ==
    (/\ call.fn = "enhanced_extract_wn_lines" /\ call.stage = "returned"
     /\ ~(1929 <= call.year /\ call.year <= 1934)
     /\ start_positions(call.strings) # {}) =>
        LET ss == call.strings
            s0 == least(start_positions(ss))
            ends == {k \in (s0 + 1)..Len(ss) :
                        \/ contains(norm(ss[k]), "0-9") /\ contains(norm(ss[k]), "ALL")
                        \/ norm(ss[k]) = "0-9"}
            t0 == IF ends = {} THEN Len(ss) + 1 ELSE least(ends)
        IN  /\ Len(call.ret) = t0 - s0 - 1
            /\ \A j \in 1..(t0 - s0 - 1) : call.ret[j] = norm(ss[s0 + j])

\* Scenario E: marker, one content string, "0-9 ALL"
C12_Witness ==
    /\ call.fn = "enhanced_extract_wn_lines" /\ call.stage = "returned"
    /\ call.year = 1950
    /\ call.strings = <<"Winners & Nominees", "Best  Actor", "0-9 ALL">>
    /\ call.ret = <<"Best Actor">>

\* C13: inside the section, on a string the "0-9"/"ALL" rule does not stop at: in
\* an early year (1929-1934) a string starting with "VIEW BY FILM" or
\* "VIEW BY CATEGORY" is left out and the loop goes on, and one starting with
\* "ALPHABETICAL" or "INDEX" ends the section; in a modern year such strings are
\* appended and the loop goes on.
C13_EarlyNavigationRules ==
    [][(/\ call.fn = "enhanced_extract_wn_lines" /\ call.stage = "loop"
        /\ call.in_section /\ call.k < Len(call.strings)) =>
           LET s == norm(call.strings[call.k + 1])
               up == upper(s)
               view == startswith(up, "VIEW BY FILM") \/ startswith(up, "VIEW BY CATEGORY")
               alpha == startswith(up, "ALPHABETICAL") \/ startswith(up, "INDEX")
               early == 1929 <= call.year /\ call.year <= 1934
               term == (contains(s, "0-9") /\ contains(s, "ALL")) \/ s = "0-9"
           IN  ~term =>
                   /\ (early /\ view) =>
                          /\ call'.out = call.out
                          /\ call'.stage = "loop" /\ call'.k = call.k + 1
                   /\ (early /\ ~view /\ alpha) =>
                          call'.stage = "returned" /\ call'.ret = call.out
                   /\ (~early /\ (view \/ alpha)) =>
                          /\ call'.out = Append(call.out, s)
                          /\ call'.stage = "loop" /\ call'.k = call.k + 1]_vars

\* in an early year a "View by Film" string was passed over and the next one kept
C13_Witness ==
    /\ call.fn = "enhanced_extract_wn_lines" /\ call.stage = "returned"
    /\ call.year = 1934
    /\ call.strings = <<"Winners & Nominees", "View by Film", "Wings">>
    /\ call.ret = <<"Wings">>

\* C14: no string before the first start marker is in the extractor's output;
\* without a start marker the output is empty, in either era, and run skips the
\* year with a warning.
C14_NothingBeforeMarker ==
    (call.fn = "enhanced_extract_wn_lines") =>
        LET starts == start_positions(call.strings)
        IN  /\ Len(call.idxs) = Len(call.out)
            /\ \A n \in DOMAIN call.idxs :
                   /\ starts # {}
                   /\ call.idxs[n] > least(starts)
                   /\ call.out[n] = norm(call.strings[call.idxs[n]])
            /\ (starts = {} /\ call.stage # "loop") =>
                   /\ call.ret = <<>>
                   /\ call.stage \in {"returned", "skipped"}
            /\ (starts = {} /\ call.stage = "skipped") =>
                   call.warning = "Could not find 'Winners & Nominees' block"

\* a page with content and no start marker was skipped with the warning
C14_Witness ==
    /\ call.fn = "enhanced_extract_wn_lines" /\ call.stage = "skipped"
    /\ call.strings = <<"Wings", "Best  Actor", "0-9 ALL">>
    /\ call.warning # ""

\* C15: whatever the lines, the start index and the cap max_lines >= 1, the entry
\* enhanced_consume_entry returns is the join of at most max_lines lines, all
\* after the start index; with the driver's cap of 2, of at most 2 lines.
C15_EntryWithinCap ==
    (call.fn = "enhanced_consume_entry" /\ call.stage = 1) =>
        LET idxs == call.ret.idxs
        IN  /\ Len(idxs) <= call.max_lines
            /\ call.max_lines = DRIVER_MAX_LINES => Len(idxs) <= 2
            /\ \A n \in DOMAIN idxs :
                   /\ call.start_idx < idxs[n] /\ idxs[n] < Len(call.lines)
                   /\ n > 1 => idxs[n - 1] < idxs[n]
            /\ call.ret.entry =
                   strip(join(" " \o EM \o " ", [n \in DOMAIN idxs |-> norm(call.lines[idxs[n] + 1])]),
                         {" ", EM})

\* the cap of 2 cut the entry short: a third content line follows the two joined
C15_Witness ==
    /\ call.fn = "enhanced_consume_entry" /\ call.stage = 1
    /\ call.max_lines = 2 /\ call.start_idx = 0
    /\ call.lines = <<"winner", " Wings", "Paramount", "Paramount">>
    /\ call.ret.idxs = <<1, 2>>
    /\ call.ret.entry = "Wings " \o EM \o " Paramount"

\* C16: the index enhanced_consume_entry returns is greater than the index of
\* every line joined into the entry, on every path out of its loop.
C16_ReturnsNextUnconsumed ==
    (call.fn = "enhanced_consume_entry" /\ call.stage = 1) =>
        \A n \in DOMAIN call.ret.idxs : call.ret.i > call.ret.idxs[n]

\* C17: the driver emits a record for a marker exactly when the entry consumed
\* for it is not empty; the record has is_winner true for the marker "winner"
\* (in any case) and false for "nominee" or "nominees", ceremony_year the given
\* year and source_url the given URL.
C17_RecordPerMarker ==
    /\ Len(rows) = Cardinality({k \in DOMAIN log : log[k].entry # ""})
    /\ \A k \in DOMAIN log :
           LET m == lower(norm(lines[log[k].marker + 1]))
           IN  /\ m \in {"winner", "nominee", "nominees"}
               /\ log[k].entry # "" =>
                      LET r == row_of(log, rows, k)
                      IN  /\ m = "winner" => r.is_winner
                          /\ m \in {"nominee", "nominees"} => ~r.is_winner
                          /\ r.ceremony_year = year
                          /\ r.source_url = source_url

\* an upper-case winner marker gave a winner record, a "Nominees" marker with
\* nothing after it gave none
C17_Witness ==
    /\ pc = "done"
    /\ lines = <<"WINNER", "Wings", "Nominees">>
    /\ Len(log) = 2 /\ log[2].entry = ""
    /\ Len(rows) = 1 /\ rows[1].is_winner /\ rows[1].film = "Wings"

\* C18: a marker at index i reached with no current category takes as current
\* category the heading of greatest index among the lines i-1 down to i-15 (not
\* below 0), and none when there is no heading among them.
C18_LookBackFifteen ==
    \A k \in DOMAIN log :
        log[k].had = <<>> =>
            LET m == log[k].marker
                cands == {j \in max(0, m - 15)..(m - 1) :
                             looks_like_heading(norm(lines[j + 1]), year)}
            IN  log[k].raw = IF cands = {} THEN <<>>
                             ELSE <<norm(lines[(CHOOSE j \in cands : \A h \in cands : h <= j) + 1])>>


\* the rows of all_rows that belong to a year
rows_of_year(yr) == {k \in DOMAIN call.all_rows : call.all_rows[k].ceremony_year = yr}

\* the years of the batch are taken in ascending order, one iteration each, and
\* write_by_category is called once, with all_rows, after the last of them
run_takes_every_year ==
    /\ \A k \in DOMAIN call.done : call.done[k].year = call.start_year + k - 1
    /\ call.pc = "loop" => Len(call.done) = call.year - call.start_year
    /\ call.pc = "parse" => Len(call.done) = call.year - call.start_year
    /\ call.pc = "returned" =>
           /\ Len(call.done) = max(0, call.end_year - call.start_year + 1)
           /\ call.written = <<call.all_rows>>
    /\ call.pc # "returned" => call.written = <<>>

\* C19 as stated: in run, every year from start_year to end_year is attempted in
\* ascending order whatever happened in earlier years; a year whose HTML cannot
\* be fetched, whose section is not found, that parses to zero rows or that
\* raises an exception contributes no rows to all_rows and does not stop the
\* batch; write_by_category is called exactly once after the last year.
C19_AnyExceptionGivesNoRows ==
    /\ run_takes_every_year
    /\ \A k \in DOMAIN call.done :
           LET d == call.done[k]
           IN  (~d.html \/ d.lines = <<>> \/ d.rows = <<>> \/ d.raised # "")
                   => rows_of_year(d.year) = {}

\* C19, amended: in run, every year from start_year to end_year is attempted in
\* ascending order whatever happened in earlier years; a year whose HTML cannot
\* be fetched, whose section is not found, that parses to zero rows or that
\* raises an exception before its rows are added to all_rows contributes no rows
\* to all_rows, and no year stops the batch; write_by_category is called exactly
\* once after the last year.
C19_FailedYearGivesNoRows ==
    /\ run_takes_every_year
    /\ \A k \in DOMAIN call.done :
           LET d == call.done[k]
           IN  (~d.html \/ d.lines = <<>> \/ d.rows = <<>> \/ d.raised = "fetch")
                   => rows_of_year(d.year) = {}

\* a batch of two years has returned: the fetch of the first raised, the second
\* gave a row, which is all that was written
C19_Witness ==
    /\ call.pc = "returned"
    /\ Len(call.done) = 2
    /\ call.done[1].raised = "fetch"
    /\ call.done[2].rows # <<>>
    /\ Len(call.written) = 1
    /\ \A k \in DOMAIN call.written[1] : call.written[1][k].ceremony_year = call.done[2].year
    /\ call.written[1] # <<>>

\* the file name as C20 describes it: the characters other than alphanumerics,
\* whitespace, hyphens and parentheses are removed, the slashes being left for
\* the second step, in which every maximal run of spaces and slashes becomes one
\* underscore
slug_as_stated(name) ==
    sub_runs(keep_only(name, (WordSet \ {"_"}) \cup WhiteSpace \cup {"-", "(", ")", "/"}),
             WhiteSpace \cup {"/"}, "_")

\* C20: slugify derives the file name from the category name by removing every
\* character that is not alphanumeric, whitespace, hyphen or parenthesis, and by
\* replacing every maximal run of spaces and/or slashes with a single underscore,
\* so that a slash between two words yields an underscore between them.
C20_SlashGivesUnderscore ==
    (call.fn = "slugify" /\ call.stage = "returned") =>
        call.ret = slug_as_stated(call.name)

\* C21: in enhanced_consume_entry a line that classifies as a category heading
\* stops the consumption whenever a line has already been accumulated: a heading
\* is part of the returned entry only as its first line, never as a later one,
\* and the consumption does not pass a heading that follows the first line.
C21_HeadingOnlyFirst ==
    (call.fn = "enhanced_consume_entry" /\ call.stage = 1) =>
        LET r == call.ret
        IN  /\ \A k \in 2..Len(r.idxs) :
                   ~looks_like_heading(norm(call.lines[r.idxs[k] + 1]), call.year)
            /\ r.idxs # <<>> =>
                   \A j \in (r.idxs[1] + 1)..(r.i - 1) :
                       ~looks_like_heading(norm(call.lines[j + 1]), call.year)

\* below a cap of 3 the entry is one heading line, and the heading after it
\* stopped the consumption
C21_Witness ==
    /\ call.fn = "enhanced_consume_entry" /\ call.stage = 1
    /\ call.max_lines = 3
    /\ call.year = 1929
    /\ call.lines = <<"winner", "Outstanding Picture", "Outstanding Picture", "Paramount">>
    /\ call.start_idx = 0
    /\ call.ret.idxs = <<1>>
    /\ call.ret.i = 2
    /\ call.ret.entry = "Outstanding Picture"

\* C22: the driver scan terminates on every finite line sequence: the scan index
\* strictly increases on every loop iteration, also on those that set it to the
\* index returned by enhanced_consume_entry, which is at least the marker index
\* plus one and at most the number of lines; no scan takes infinitely many
\* iterations, and the loop is left only with the index at the end of the lines.
C22_ScanTerminates ==
    /\ [][pc = "scan" => \/ (pc' = "scan" /\ i < i' /\ i' <= Len(lines))
                         \/ (pc' = "done" /\ i >= Len(lines))]_vars
    /\ [](\A k \in DOMAIN log :
             log[k].marker + 1 <= log[k].next_i /\ log[k].next_i <= Len(lines))
    /\ <>[][~(pc = "scan" /\ pc' = "scan")]_vars

\* a scan has ended after a marker on the last line, whose call of the consumer
\* returned the marker index plus one
C22_Witness ==
    /\ pc = "done"
    /\ lines = <<"nominee", "Wings", "winner">>
    /\ i = 3
    /\ Len(log) = 2
    /\ log[2].marker = 2 /\ log[2].next_i = 3 /\ log[2].entry = ""

\* the indices of the marker lines after index k
markers_after(k) ==
    {j \in (k + 1)..(Len(lines) - 1) : lower(norm(lines[j + 1])) \in markers}

\* C23: for a marker at index k, every line joined into its entry has an index
\* smaller than that of the first marker line after k: a marker never takes as
\* its entry the content that follows a later marker, so a film listed after a
\* "nominee" marker is never emitted with is_winner true.
C23_EntryBeforeNextMarker ==
    \A k \in DOMAIN log :
        \A n \in DOMAIN log[k].idxs :
            \A j \in markers_after(log[k].marker) : log[k].idxs[n] < j

\* the indices of the lines before index k that classify as a category heading
headings_before(k) ==
    {j \in 0..(k - 1) : looks_like_heading(norm(lines[j + 1]), year)}

\* C24: every record emitted by the driver carries the category resolved from
\* the nearest line before its marker that classifies as a category heading:
\* whenever a heading line occurs between two markers, the records of the later
\* marker use that heading and not an earlier one.
C24_NearestHeading ==
    \A k \in DOMAIN log :
        (log[k].emitted /\ headings_before(log[k].marker) # {}) =>
            LET j == CHOOSE h \in headings_before(log[k].marker) :
                         \A g \in headings_before(log[k].marker) : g <= h
            IN  log[k].category = resolve_category(<<norm(lines[j + 1])>>, year)

\* C25: for every year y and every label c of get_categories_for_year(y),
\* enhanced_looks_like_category_heading(c, y) returns true: every label of the
\* year's own taxonomy snapshot is recognised as a heading in that year.
C25_OwnLabelsAreHeadings ==
    (/\ call.fn = "enhanced_looks_like_category_heading"
     /\ call.stage = 1
     /\ call.s \in Range(get_categories_for_year(call.year))) => call.ret

\* C26: during one driver scan each line of the section is joined into the entry
\* of at most one marker: no line index is consumed by the entries of two
\* different markers, for every line sequence and year.
C26_LineJoinedOnce ==
    \A k1 \in DOMAIN log : \A k2 \in DOMAIN log :
        k1 # k2 =>
            \A n1 \in DOMAIN log[k1].idxs : \A n2 \in DOMAIN log[k2].idxs :
                log[k1].idxs[n1] # log[k2].idxs[n2]

\* the first marker joined two lines and returned the index of the second; the
\* scan passed over that line again and the second marker joined the line after
\* it only
C26_Witness ==
    /\ pc = "done"
    /\ lines = <<"winner", "Wings", "Wings", "nominee", "Wings">>
    /\ Len(log) = 2
    /\ log[1].idxs = <<1, 2>> /\ log[1].next_i = 2
    /\ log[2].marker = 3 /\ log[2].idxs = <<4>>
=============================================================================
